---- MODULE Spec2Model ----
(***************************************************************************)
(* Device-flow authorization engine of mcp_oauth_server.                   *)
(*                                                                         *)
(* Server side: GitHubServerAuthProvider (src/server/index_streamable.ts,  *)
(* lines 219-627): the device-code registry _deviceCodes, the session      *)
(* token store tokenStore, the operations initiateDeviceFlow,              *)
(* checkDeviceCodeStatus and verifyAccessToken, and the timer that sweeps  *)
(* the token store.  checkDeviceCodeStatus is an async function: its       *)
(* code up to the first await (the provider token poll, line 556) runs     *)
(* atomically, and so does its code after the provider answered; other     *)
(* requests interleave while it awaits.  The provider is an external       *)
(* collaborator: its answer is an input of the model.                      *)
(*                                                                         *)
(* Client side: HeadlessClientOAuthProvider.pollForAuthorization           *)
(* (src/client/auth/HeadlessClientOAuthProvider.ts, lines 192-280), a      *)
(* single-threaded loop of sleep, request, answer.  The server is seen     *)
(* from the client as the answer to each request, an input of the model.   *)
(*                                                                         *)
(* Specifications: Spec, concurrent status checks of one device flow;      *)
(* TokenSpec, flows one after the other with verifyAccessToken, the sweep  *)
(* and a clock that reaches the expiry of session tokens (FairTokenSpec    *)
(* adds the fairness of the timer and of time); FlowSpec, several device   *)
(* flows and failing device-code requests; ClientSpec, the client's loop;  *)
(* BridgeSpec, the authorization-code bridge and the operations that are   *)
(* not implemented; RegistrySpec, the registered-client store, its load    *)
(* at startup and its saves; RouteSpec, the routes /device/authorize and   *)
(* /device/token (src/unnamed/part_000) before the engine; StorageSpec,    *)
(* the client's authorizeHeadless and its device-code storage.             *)
(*                                                                         *)
(* Time is counted in seconds (the code counts milliseconds and every      *)
(* duration it uses is a whole number of seconds times 1000).  Writing the *)
(* client's files is taken to succeed.                                     *)
(***************************************************************************)
EXTENDS Integers, Sequences, FiniteSets, TLC

VARIABLES
    now,            \* Date.now(), in seconds
    \* ---- server ----
    deviceCodes,    \* _deviceCodes: internal device code -> session
    tokenStore,     \* tokenStore: session token -> stored token
    nIssued,        \* number of internal device codes generated so far
    nMinted,        \* number of session tokens generated so far
    inflight,       \* the checkDeviceCodeStatus calls awaiting the provider
    ev,             \* the server operation that made the last step, and its result
    prev,           \* per device code, how the last call that returned for it went
    \* ---- client ----
    pc,             \* position of pollForAuthorization
    interval,       \* its local variable interval
    maxTime,        \* its local variable maxTime
    startTime,      \* its local variable startTime
    pollCode,       \* its local variable deviceCode
    clientInfo,     \* whether the client-information file holds a client_id
    memDeviceCode,  \* this._deviceCode
    fileDeviceCode, \* content of the device-code file
    tokenFile,      \* content of the session-token file
    outcome,        \* what pollForAuthorization returned or threw
    lastAns,        \* the answer to the last status request
    stats,          \* observations of the polling session (see ClientStats0)
    \* ---- server, beside the device flow ----
    tempAuthCodes,  \* _tempAuthCodes: temporary authorization code -> entry
    nTempCodes,     \* number of temporary authorization codes generated so far
    redeemed,       \* the temporary codes an exchange has returned tokens for
    issuedTo,       \* device code -> the client_id of the request it was issued to
    clientsMap,     \* _clientsMap: the client_ids that have a registration
    clientsFile,    \* the persisted client file (see NoFile, FileOf)
    loadPc,         \* position of the constructor's _loadClientsFromFile call
    pendingSaves,   \* the _saveClientsToFile calls awaiting fs.writeFile
    registered      \* the client_ids registerClient has returned for

serverVars == <<deviceCodes, tokenStore, nIssued, nMinted, inflight, ev, prev>>
clientVars == <<pc, interval, maxTime, startTime, pollCode, clientInfo, memDeviceCode,
                fileDeviceCode, tokenFile, outcome, lastAns, stats>>
bridgeVars == <<tempAuthCodes, nTempCodes, redeemed>>
registryVars == <<clientsMap, clientsFile, loadPc, pendingSaves, registered>>
routeVars == <<issuedTo>>
sideVars == <<bridgeVars, registryVars, routeVars>>
vars == <<now, serverVars, clientVars, sideVars>>

----------------------------------------------------------------------------
(* Bounds of the model *)

\* internal device codes generated (initiateDeviceFlow calls that succeed)
MaxCodes == 1
\* checkDeviceCodeStatus calls awaiting the provider at the same time
MaxInflight == 2
\* session tokens minted
MaxMinted == 2
\* last instant of the server's clock
MaxNow == 2
\* largest expires_in the provider grants to a device code, in seconds
MaxExpiresIn == 1
\* internal device codes generated when status checks run one at a time
MaxFlows == 2
\* temporary authorization codes generated, and the seconds one is valid
MaxTempCodes == 2
MaxCodeTTL == 1
\* largest interval and timeout (seconds) pollForAuthorization is called
\* with, besides its defaults
MaxInterval == 2
MaxTimeout == 3
\* status requests of one pollForAuthorization call
MaxPolls == 4
\* most seconds a sleep lasts beyond its interval, and an answer takes
MaxLag == 1
MaxLatency == 1
\* calls of authorizeHeadless
MaxAuthorize == 2

----------------------------------------------------------------------------
(* Values *)

NoToken == 0
NoData == [absent |-> TRUE]
NoDesc == "<none>"

ClientIds == {"c1", "c2"}
\* access tokens the provider hands out
ProviderTokens == {"gho_a"}
\* poll interval the provider asks for, in seconds
ProviderIntervals == {5}

\* validity of a session token in seconds
TokenTTL == 3600
GrantedScopes == {"read:user", "user:email"}

\* the `{error, error_description}` shape
ErrorResult(e, d) ==
    [kind |-> "error", error |-> e, error_description |-> d,
     access_token |-> NoToken, expires_in |-> 0]

\* the OAuthTokens shape (the refresh_token, random and tracked nowhere, is
\* left out)
TokenResult(t, exp) ==
    [kind |-> "token", error |-> "", error_description |-> "",
     access_token |-> t, expires_in |-> exp, token_type |-> "Bearer",
     scope |-> "read:user user:email"]

NoResult == [kind |-> "none", error |-> "", error_description |-> "",
             access_token |-> NoToken, expires_in |-> 0]

\* What the provider's token endpoint can answer to one poll; "netfail" is
\* a fetch or a response.json() that throws.
ProviderAnswers ==
    {[type |-> "success", error |-> "", desc |-> NoDesc, access_token |-> t] :
        t \in ProviderTokens}
    \cup {[type |-> "error", error |-> e, desc |-> NoDesc, access_token |-> ""] :
        e \in {"authorization_pending", "slow_down", "expired_token"}}
    \cup {[type |-> "error", error |-> "access_denied",
           desc |-> "The user has denied the request", access_token |-> ""]}
    \cup {[type |-> "netfail", error |-> "", desc |-> NoDesc, access_token |-> ""]}

NoAnswer == [type |-> "none", error |-> "", desc |-> NoDesc, access_token |-> ""]

----------------------------------------------------------------------------
(* Maps *)

MapGet(m, k) == IF k \in DOMAIN m THEN m[k] ELSE NoData
MapSet(m, k, v) == [x \in DOMAIN m \cup {k} |-> IF x = k THEN v ELSE m[x]]
MapDelete(m, k) == [x \in DOMAIN m \ {k} |-> m[x]]
EmptyMap == [x \in {} |-> NoData]

----------------------------------------------------------------------------
(* Session token store *)

\* tokenStore.getToken
GetToken(t) == MapGet(tokenStore, t)

\* tokenStore.storeToken: the token value it generates and the store after it
FreshToken == nMinted + 1
StoreToken(accessToken, challenge, ttl, clientId, scopes) ==
    MapSet(tokenStore, FreshToken,
           [absent |-> FALSE, githubToken |-> accessToken,
            clientCodeChallenge |-> challenge, clientId |-> clientId,
            scopes |-> scopes, expiresAt |-> now + ttl])

----------------------------------------------------------------------------
(* Device-code registry and checkDeviceCodeStatus *)

\* the provider's own device code for the n-th request: never one of ours
ProviderDeviceCode(n) == 100 + n

\* the entry initiateDeviceFlow stores
NewSession(clientId, ghCode, expiresIn, ival) ==
    [absent |-> FALSE, clientId |-> clientId, githubDeviceCode |-> ghCode,
     userCode |-> "WDJB-MJHT", verificationUri |-> "https://github.com/login/device",
     expiresAt |-> now + expiresIn, interval |-> ival, sessionToken |-> NoToken]

\* `deviceData.expiresAt < Date.now()`
IsExpired(data) == data.expiresAt < now

\* `deviceData.sessionToken` is set and tokenStore.getToken finds it
HasStoredToken(data) ==
    data.sessionToken # NoToken /\ ~GetToken(data.sessionToken).absent

\* Which way checkDeviceCodeStatus(d) goes before its first await.
EntryBranch(d) ==
    LET data == MapGet(deviceCodes, d) IN
    IF data.absent THEN "unknown"
    ELSE IF IsExpired(data) THEN "expired"
    ELSE IF HasStoredToken(data) THEN "attached"
    ELSE "provider"

\* EntryResult with the two early error returns mixed up
EntryResultMixedUp(d) ==
    LET data == MapGet(deviceCodes, d)
        br == EntryBranch(d) IN
    CASE br = "unknown" -> ErrorResult("expired_token", "Device code has expired")
      [] br = "expired" -> ErrorResult("invalid_grant", "Device code not found")
      [] br = "attached" ->
            TokenResult(data.sessionToken, GetToken(data.sessionToken).expiresAt - now)
      [] OTHER -> NoResult

\* What it returns there ("provider": nothing yet, it awaits the provider).
EntryResult(d) ==
    LET data == MapGet(deviceCodes, d)
        br == EntryBranch(d) IN
    CASE br = "unknown" -> ErrorResult("invalid_grant", "Device code not found")
      [] br = "expired" -> ErrorResult("expired_token", "Device code has expired")
      [] br = "attached" ->
            TokenResult(data.sessionToken, GetToken(data.sessionToken).expiresAt - now)
      [] OTHER -> NoResult

\* EntryRegistry without the delete of the expiry check
EntryRegistryKeepsExpired(d) ==
    IF EntryBranch(d) = "attached" THEN MapDelete(deviceCodes, d) ELSE deviceCodes

\* The registry after it.
EntryRegistry(d) ==
    IF EntryBranch(d) \in {"expired", "attached"} THEN MapDelete(deviceCodes, d)
    ELSE deviceCodes

\* A call awaiting the provider: the device code it was called with, the
\* session it read before the await, and whether a call that awaited the
\* provider for the same code at the same time has returned a token since.
\* Calls have no identity of their own: inflight is a bag, call -> how many.
\* caller is the client_id of the request the call serves, "" when the
\* server called by itself.
AwaitingCallBy(caller, d, data) ==
    [code |-> d, data |-> data, peerToken |-> FALSE, caller |-> caller]
AwaitingCall(d, data) == AwaitingCallBy("", d, data)
Copies(B) == UNION {{<<c, k>> : k \in 1..B[c]} : c \in DOMAIN B}
BagSize(B) == Cardinality(Copies(B))
BagAdd(B, c) ==
    [x \in DOMAIN B \cup {c} |-> IF x \in DOMAIN B THEN B[x] + (IF x = c THEN 1 ELSE 0)
                                 ELSE 1]
BagRemove(B, c) ==
    [x \in {y \in DOMAIN B : y # c \/ B[y] > 1} |-> IF x = c THEN B[x] - 1 ELSE B[x]]
\* the calls awaiting the provider for device code d get the peerToken mark
MarkPeers(B, d) ==
    LET mark(c) == IF c.code = d THEN [c EXCEPT !.peerToken = TRUE] ELSE c IN
    [x \in {mark(c) : c \in DOMAIN B} |->
        Cardinality({p \in Copies(B) : mark(p[1]) = x})]

\* What a step of the server did: the operation, the device code or session
\* token it was called with, what it returned (NoResult: nothing yet), and for a call that
\* returns from the provider's answer its peerToken mark.
Event(op, arg, res, peerTok) ==
    [op |-> op, code |-> arg, result |-> res, peerToken |-> peerTok, caller |-> ""]

\* the same for initiateDeviceFlow(clientId)
InitiateEvent(clientId, res) == [Event("initiate", 0, res, FALSE) EXCEPT !.caller = clientId]

\* How the call that returns now went, as far as later calls are stated by it.
Outcome(br) == IF br \in {"expired", "minted"} THEN br ELSE "other"

\* `crypto.randomBytes(32).toString('hex')`: a value not generated before
InternalDeviceCode == nIssued + 1

\* the provider's answer to a device-code request that it grants
ProviderGrant(n, expiresIn, ival) ==
    [device_code |-> ProviderDeviceCode(n), user_code |-> "WDJB-MJHT",
     verification_uri |-> "https://github.com/login/device",
     expires_in |-> expiresIn, interval |-> ival]

\* InitiateResult handing out the provider's device code
InitiateResultProviderCode(d, grant) ==
    [kind |-> "device", device_code |-> grant.device_code, user_code |-> grant.user_code,
     verification_uri |-> grant.verification_uri,
     expires_in |-> grant.expires_in, interval |-> grant.interval]

\* What initiateDeviceFlow returns: internal device code d and the rest of
\* the provider's answer.
InitiateResult(d, grant) ==
    [kind |-> "device", device_code |-> d, user_code |-> grant.user_code,
     verification_uri |-> grant.verification_uri,
     expires_in |-> grant.expires_in, interval |-> grant.interval]

\* an Error thrown to the caller
Thrown(m) == [kind |-> "throw", message |-> m]

\* initiateDeviceFlow(clientId), the provider granting a device code: what
\* it does to the server's fields
InitiateGranted(clientId, expiresIn, ival) ==
    LET d == InternalDeviceCode
        grant == ProviderGrant(nIssued + 1, expiresIn, ival) IN
    /\ deviceCodes' = MapSet(deviceCodes, d,
                             NewSession(clientId, grant.device_code, grant.expires_in,
                                        grant.interval))
    /\ nIssued' = nIssued + 1
    /\ prev' = [x \in DOMAIN prev \cup {d} |-> IF x = d THEN "other" ELSE prev[x]]
    /\ ev' = InitiateEvent(clientId, InitiateResult(d, grant))
    /\ UNCHANGED <<now, tokenStore, nMinted, inflight, clientVars>>

\* initiateDeviceFlow(clientId) called by the server itself
InitiateDeviceFlow(clientId, expiresIn, ival) ==
    InitiateGranted(clientId, expiresIn, ival) /\ UNCHANGED sideVars

\* InitiateFails that has stored a session before it throws
InitiateFailsAfterStore(clientId, mode) ==
    /\ deviceCodes' = MapSet(deviceCodes, InternalDeviceCode,
                             NewSession(clientId, ProviderDeviceCode(nIssued + 1), 1, 5))
    /\ ev' = InitiateEvent(clientId, Thrown("fetch failed"))
    /\ UNCHANGED <<now, tokenStore, nIssued, nMinted, inflight, prev, clientVars, sideVars>>

\* initiateDeviceFlow(clientId), the provider's device-code request failing:
\* fetch or response.json() throws ("network"), or the response is not ok
\* ("status").  Nothing is caught: the error goes to the caller.
InitiateFails(clientId, mode) ==
    /\ ev' = InitiateEvent(clientId,
                           Thrown(IF mode = "status"
                                  THEN "GitHub device code request failed"
                                  ELSE "fetch failed"))
    /\ UNCHANGED <<now, deviceCodes, tokenStore, nIssued, nMinted, inflight, prev,
                   clientVars, sideVars>>

\* checkDeviceCodeStatus(d) up to its return or to its await of the provider,
\* called for a request of client caller: what it does to the server
CheckEntryServed(caller, d) ==
    LET br == EntryBranch(d) IN
    /\ br = "provider" => BagSize(inflight) < MaxInflight
    /\ deviceCodes' = EntryRegistry(d)
    /\ IF br = "provider"
       THEN /\ inflight' = BagAdd(inflight, AwaitingCallBy(caller, d, MapGet(deviceCodes, d)))
            /\ prev' = prev
       ELSE /\ inflight' = inflight
            /\ prev' = [x \in DOMAIN prev |-> IF x = d THEN Outcome(br) ELSE prev[x]]
    /\ ev' = [Event("entry", d, EntryResult(d), FALSE) EXCEPT !.caller = caller]
    /\ UNCHANGED <<now, tokenStore, nIssued, nMinted, sideVars>>

\* the same, the caller being any client but the one of this model
CheckEntryBy(caller, d) == CheckEntryServed(caller, d) /\ UNCHANGED clientVars

\* the same, called by the server itself
CheckEntry(d) == CheckEntryBy("", d)

\* AnswerResult that reports a failed provider call as authorization_pending
AnswerResultHidesFailure(ans) ==
    CASE ans.type \in {"netfail", "error"} /\ ans.error \in {"", "authorization_pending"} ->
            ErrorResult("authorization_pending",
                        "The user has not yet authorized this device")
      [] ans.type = "error" /\ ans.error = "slow_down" ->
            ErrorResult("slow_down", "Polling too frequently, slow down")
      [] ans.type = "error" ->
            ErrorResult(ans.error,
                        IF ans.desc = NoDesc THEN "Error from GitHub authorization"
                        ELSE ans.desc)
      [] OTHER -> TokenResult(FreshToken, TokenTTL)

\* What checkDeviceCodeStatus returns once the provider answered.
AnswerResult(ans) ==
    CASE ans.type = "netfail" ->
            ErrorResult("server_error", "Error checking authorization status")
      [] ans.type = "error" /\ ans.error = "authorization_pending" ->
            ErrorResult("authorization_pending",
                        "The user has not yet authorized this device")
      [] ans.type = "error" /\ ans.error = "slow_down" ->
            ErrorResult("slow_down", "Polling too frequently, slow down")
      [] ans.type = "error" ->
            ErrorResult(ans.error,
                        IF ans.desc = NoDesc THEN "Error from GitHub authorization"
                        ELSE ans.desc)
      [] OTHER -> TokenResult(FreshToken, TokenTTL)

\* ResolvedSession that attaches nothing
ResolvedSessionNotAttached(data) == data

\* The session checkDeviceCodeStatus writes back on success: the entry it
\* read before the await, with the session token added.
ResolvedSession(data) == [data EXCEPT !.sessionToken = FreshToken]

\* AnswerRegistry that stretches the session's interval on slow_down
AnswerRegistrySlowsDown(d, data, ans) ==
    IF ans.type = "success" THEN MapSet(deviceCodes, d, ResolvedSession(data))
    ELSE IF ans.error = "slow_down" /\ d \in DOMAIN deviceCodes
    THEN MapSet(deviceCodes, d, [data EXCEPT !.interval = @ + 5])
    ELSE deviceCodes

\* The registry after the provider answered.
AnswerRegistry(d, data, ans) ==
    IF ans.type = "success" THEN MapSet(deviceCodes, d, ResolvedSession(data))
    ELSE deviceCodes

\* MintedFor that takes the client of the request
MintedForCaller(call) == call.caller

\* `deviceData.clientId`: the client the session token is minted for
MintedFor(call) == call.data.clientId

\* checkDeviceCodeStatus from the provider's answer to its return
ProviderAnswer(call, ans) ==
    /\ call \in DOMAIN inflight
    /\ ans.type = "success" => nMinted < MaxMinted
    /\ LET d == call.code
           res == AnswerResult(ans) IN
       /\ inflight' = IF res.kind = "token" THEN MarkPeers(BagRemove(inflight, call), d)
                      ELSE BagRemove(inflight, call)
       /\ IF ans.type = "success"
          THEN /\ tokenStore' = StoreToken(ans.access_token, "", TokenTTL,
                                           MintedFor(call), GrantedScopes)
               /\ nMinted' = FreshToken
          ELSE UNCHANGED <<tokenStore, nMinted>>
       /\ deviceCodes' = AnswerRegistry(d, call.data, ans)
       /\ prev' = [x \in DOMAIN prev |->
                       IF x = d THEN Outcome(IF ans.type = "success" THEN "minted"
                                             ELSE "error")
                       ELSE prev[x]]
       /\ ev' = [Event("answer", d, res, call.peerToken) EXCEPT !.caller = call.caller]
    /\ UNCHANGED <<now, nIssued, clientVars, sideVars>>

\* a second passes
Tick ==
    /\ now < MaxNow
    /\ now' = now + 1
    /\ ev' = Event("tick", 0, NoResult, FALSE)
    /\ UNCHANGED <<deviceCodes, tokenStore, nIssued, nMinted, inflight, prev, clientVars, sideVars>>

\* the instants of the clock that jumps: the first seconds, and the last of
\* them one session-token validity later
Instants == (0..MaxNow) \cup {MaxNow + TokenTTL}

\* time passes: s seconds
Pass(s) ==
    /\ now + s \in Instants
    /\ now' = now + s
    /\ ev' = Event("tick", 0, NoResult, FALSE)
    /\ UNCHANGED <<deviceCodes, tokenStore, nIssued, nMinted, inflight, prev, clientVars, sideVars>>

----------------------------------------------------------------------------
(* verifyAccessToken and the sweep of the session-token store *)

\* tokenStore.removeToken
RemoveToken(t) == MapDelete(tokenStore, t)

\* tokenStore.cleanExpiredTokens: the store without the entries whose expiry
\* has passed
CleanExpiredTokens ==
    [t \in {x \in DOMAIN tokenStore : ~(tokenStore[x].expiresAt < now)} |-> tokenStore[t]]

\* the AuthInfo shape
AuthInfo(t, stored) ==
    [kind |-> "authinfo", token |-> t, clientId |-> stored.clientId,
     scopes |-> stored.scopes, expiresAt |-> stored.expiresAt]

InvalidTokenMessage == "Invalid or expired token"
TokenExpiredMessage == "Token has expired"

\* Which way verifyAccessToken(t) goes.
VerifyBranch(t) ==
    LET storedToken == GetToken(t) IN
    IF storedToken.absent THEN "absent"
    ELSE IF storedToken.expiresAt < now THEN "expired"
    ELSE "valid"

\* VerifyResult without the expiry check
VerifyResultNoExpiry(t) ==
    IF VerifyBranch(t) = "absent" THEN Thrown(InvalidTokenMessage)
    ELSE AuthInfo(t, GetToken(t))

\* What it returns or throws.
VerifyResult(t) ==
    CASE VerifyBranch(t) = "absent" -> Thrown(InvalidTokenMessage)
      [] VerifyBranch(t) = "expired" -> Thrown(TokenExpiredMessage)
      [] OTHER -> AuthInfo(t, GetToken(t))

\* VerifyStore that leaves an expired token in the store
VerifyStoreKeepsExpired(t) == tokenStore

\* The session-token store after it.
VerifyStore(t) == IF VerifyBranch(t) = "expired" THEN RemoveToken(t) ELSE tokenStore

\* verifyAccessToken(t)
VerifyAccessToken(t) ==
    /\ tokenStore' = VerifyStore(t)
    /\ ev' = Event("verify", t, VerifyResult(t), FALSE)
    /\ UNCHANGED <<now, deviceCodes, nIssued, nMinted, inflight, prev, clientVars, sideVars>>

\* Sweep that empties the store
SweepClearsAll ==
    /\ tokenStore' = EmptyMap
    /\ ev' = Event("sweep", 0, NoResult, FALSE)
    /\ UNCHANGED <<now, deviceCodes, nIssued, nMinted, inflight, prev, clientVars, sideVars>>

\* the callback of the constructor's 60-second timer
Sweep ==
    /\ tokenStore' = CleanExpiredTokens
    /\ ev' = Event("sweep", 0, NoResult, FALSE)
    /\ UNCHANGED <<now, deviceCodes, nIssued, nMinted, inflight, prev, clientVars, sideVars>>

----------------------------------------------------------------------------
(* The authorization-code bridge and the operations that are not implemented *)

\* What the provider contract's caller gets from challengeForAuthorizationCode
ChallengeResult(c) == [kind |-> "challenge", value |-> c]

InvalidCodeMessage == "Invalid or expired authorization code"
InvalidSessionMessage == "Invalid session token"
ExchangeFailed(m) == Thrown("Failed to exchange authorization code: " \o m)
ChallengeFailed(m) == Thrown("Failed to get code challenge: " \o m)
RefreshNotImplemented == "Refresh token exchange not implemented"
RevocationNotImplemented == "Token revocation not implemented"

\* the event of a bridge operation: none of them reads its client argument
BridgeEvent(op, c, arg, res) == Event(op, arg, res, FALSE)

\* The legacy browser path's callback: a new temporary code for a session
\* token of the store, valid for ttl seconds.
LegacyCallback(t, ttl) ==
    /\ t \in DOMAIN tokenStore
    /\ nTempCodes' = nTempCodes + 1
    /\ tempAuthCodes' = MapSet(tempAuthCodes, nTempCodes + 1,
                               [absent |-> FALSE, sessionToken |-> t, expires |-> now + ttl])
    /\ ev' = Event("callback", nTempCodes + 1, NoResult, FALSE)
    /\ UNCHANGED <<now, deviceCodes, tokenStore, nIssued, nMinted, inflight, prev,
                   clientVars, redeemed, registryVars, routeVars>>

\* Which way a lookup of the temporary code goes: the test of
\* exchangeAuthorizationCode and of challengeForAuthorizationCode, then
\* their lookup of the session token.
CodeBranch(code) ==
    LET tempCodeData == MapGet(tempAuthCodes, code) IN
    IF tempCodeData.absent \/ tempCodeData.expires < now THEN "invalid"
    ELSE IF GetToken(tempCodeData.sessionToken).absent THEN "nosession"
    ELSE "ok"

\* ExchangeCodes that keeps a code it has returned tokens for
ExchangeCodesKeepsRedeemed(code) ==
    IF CodeBranch(code) = "ok" THEN tempAuthCodes ELSE MapDelete(tempAuthCodes, code)

\* The temporary-code map after exchangeAuthorizationCode(code).
ExchangeCodes(code) == MapDelete(tempAuthCodes, code)

\* What exchangeAuthorizationCode(code) returns or throws.
ExchangeResult(code) ==
    CASE CodeBranch(code) = "invalid" -> ExchangeFailed(InvalidCodeMessage)
      [] CodeBranch(code) = "nosession" -> ExchangeFailed(InvalidSessionMessage)
      [] OTHER ->
            LET sessionToken == tempAuthCodes[code].sessionToken IN
            TokenResult(sessionToken, GetToken(sessionToken).expiresAt - now)

\* exchangeAuthorizationCode(client, code)
ExchangeAuthorizationCode(c, code) ==
    /\ tempAuthCodes' = ExchangeCodes(code)
    /\ redeemed' = IF ExchangeResult(code).kind = "token" THEN redeemed \cup {code}
                   ELSE redeemed
    /\ ev' = BridgeEvent("exchange", c, code, ExchangeResult(code))
    /\ UNCHANGED <<now, deviceCodes, tokenStore, nIssued, nMinted, inflight, prev,
                   clientVars, nTempCodes, registryVars, routeVars>>

\* The temporary-code map after challengeForAuthorizationCode(code).
ChallengeCodes(code) ==
    IF CodeBranch(code) = "invalid" THEN MapDelete(tempAuthCodes, code) ELSE tempAuthCodes

\* What challengeForAuthorizationCode(code) returns or throws.
ChallengeResultOf(code) ==
    CASE CodeBranch(code) = "invalid" -> ChallengeFailed(InvalidCodeMessage)
      [] CodeBranch(code) = "nosession" -> ChallengeFailed(InvalidSessionMessage)
      [] OTHER -> ChallengeResult(GetToken(tempAuthCodes[code].sessionToken).clientCodeChallenge)

\* challengeForAuthorizationCode(client, code)
ChallengeForAuthorizationCode(c, code) ==
    /\ tempAuthCodes' = ChallengeCodes(code)
    /\ ev' = BridgeEvent("challenge", c, code, ChallengeResultOf(code))
    /\ UNCHANGED <<now, deviceCodes, tokenStore, nIssued, nMinted, inflight, prev,
                   clientVars, nTempCodes, redeemed, registryVars, routeVars>>

\* RevokeStore that removes the token
RevokeStoreRemoves(t) == MapDelete(tokenStore, t)

\* The session-token store after revokeToken: the one before it.
RevokeStore(t) == tokenStore

\* exchangeRefreshToken(client, refreshToken): the refresh tokens the server
\* returns are random values it keeps nowhere, so whether the argument is
\* one of them (issued) or not is all that tells two arguments apart.
ExchangeRefreshToken(c, issued) ==
    /\ ev' = BridgeEvent("refresh", c, IF issued THEN 1 ELSE 0, Thrown(RefreshNotImplemented))
    /\ UNCHANGED <<now, deviceCodes, tokenStore, nIssued, nMinted, inflight, prev,
                   clientVars, sideVars>>

\* revokeToken(client, {token: t})
RevokeToken(c, t) ==
    /\ tokenStore' = RevokeStore(t)
    /\ ev' = BridgeEvent("revoke", c, t, Thrown(RevocationNotImplemented))
    /\ UNCHANGED <<now, deviceCodes, nIssued, nMinted, inflight, prev, clientVars, sideVars>>

----------------------------------------------------------------------------
(* The registered-client store and its persisted file *)

\* the persisted client file: none, or the registrations it holds
NoFile == [exists |-> FALSE, clients |-> {}]
FileOf(S) == [exists |-> TRUE, clients |-> S]

\* clientsStore.getClient(c): the registration, "" for undefined.  A
\* registration is told from another by its client_id.
GetClient(c) == IF c \in clientsMap THEN c ELSE ""

\* the event of a step of the store; c is the client_id it is about
RegistryEvent(op, c) == [Event(op, 0, NoResult, FALSE) EXCEPT !.caller = c]

\* _loadClientsFromFile up to the answer of fs.access
LoadAccess ==
    /\ loadPc = "access"
    /\ loadPc' = IF clientsFile.exists THEN "read" ELSE "done"
    /\ ev' = RegistryEvent("access", "")
    /\ UNCHANGED <<now, deviceCodes, tokenStore, nIssued, nMinted, inflight, prev, clientVars,
                   bridgeVars, routeVars, clientsMap, clientsFile, pendingSaves, registered>>

\* _loadClientsFromFile from the answer of fs.readFile on: the map is
\* cleared and filled with the registrations of the file
LoadRead ==
    /\ loadPc = "read"
    /\ loadPc' = "done"
    /\ clientsMap' = clientsFile.clients
    /\ ev' = RegistryEvent("load", "")
    /\ UNCHANGED <<now, deviceCodes, tokenStore, nIssued, nMinted, inflight, prev, clientVars,
                   bridgeVars, routeVars, clientsFile, pendingSaves, registered>>

\* clientsStore.registerClient(c): the map entry is set, and
\* _saveClientsToFile runs up to its await of fs.writeFile with the content
\* it made of the map
RegisterClient(c) ==
    /\ clientsMap' = clientsMap \cup {c}
    /\ pendingSaves' = pendingSaves \cup {clientsMap \cup {c}}
    /\ registered' = registered \cup {c}
    /\ ev' = RegistryEvent("register", c)
    /\ UNCHANGED <<now, deviceCodes, tokenStore, nIssued, nMinted, inflight, prev, clientVars,
                   bridgeVars, routeVars, clientsFile, loadPc>>

\* an fs.writeFile of _saveClientsToFile completes: the file holds its content
SaveCompletes(content) ==
    /\ content \in pendingSaves
    /\ pendingSaves' = pendingSaves \ {content}
    /\ clientsFile' = FileOf(content)
    /\ ev' = RegistryEvent("saved", "")
    /\ UNCHANGED <<now, deviceCodes, tokenStore, nIssued, nMinted, inflight, prev, clientVars,
                   bridgeVars, routeVars, clientsMap, loadPc, registered>>

----------------------------------------------------------------------------
(* The routes of the device flow *)

\* a request body without client_id has cid = "", one without device_code
\* has d = 0
RequestClientIds == ClientIds \cup {""}

\* TokenValidation without the look-up of the client
TokenValidationAnyClient(cid, d) ==
    IF cid = "" \/ d = 0 THEN "invalid_request" ELSE "ok"

\* The checks of POST /device/token before the engine is called.
TokenValidation(cid, d) ==
    IF cid = "" \/ d = 0 THEN "invalid_request"
    ELSE IF GetClient(cid) = "" THEN "invalid_client"
    ELSE "ok"

\* The checks of POST /device/authorize before the engine is called.
AuthorizeValidation(cid) ==
    IF cid = "" THEN "invalid_request"
    ELSE IF GetClient(cid) = "" THEN "invalid_client"
    ELSE "ok"

\* the 400 response of a route to a request it rejects
Rejection(route, e) ==
    ErrorResult(e, CASE e = "invalid_client" -> "Client not found"
                     [] route = "token" -> "Missing required parameters"
                     [] OTHER -> "Missing client_id parameter")

\* a route answers a request it rejects: what it does to the server
Rejected(route, cid, d, e) ==
    /\ ev' = [Event(route, d, Rejection(route, e), FALSE) EXCEPT !.caller = cid]
    /\ UNCHANGED <<now, deviceCodes, tokenStore, nIssued, nMinted, inflight, prev, sideVars>>

\* a route answers a request it rejects
Reject(route, cid, d, e) == Rejected(route, cid, d, e) /\ UNCHANGED clientVars

\* POST /device/token with body {client_id: cid, device_code: d}, up to its
\* response or to the engine's await of the provider: what it does to the
\* server
TokenRouteServed(cid, d) ==
    IF TokenValidation(cid, d) # "ok" THEN Rejected("token", cid, d, TokenValidation(cid, d))
    ELSE CheckEntryServed(cid, d)

\* the same, the request coming from any client but the one of this model
DeviceTokenRoute(cid, d) == TokenRouteServed(cid, d) /\ UNCHANGED clientVars

\* POST /device/authorize with body {client_id: cid}; the provider grants a
\* device code (mode "granted") or its device-code request fails
DeviceAuthorizeRoute(cid, mode, expiresIn, ival) ==
    IF AuthorizeValidation(cid) # "ok"
    THEN Reject("authorize", cid, 0, AuthorizeValidation(cid))
    ELSE IF mode = "granted"
    THEN /\ nIssued < MaxCodes
         /\ InitiateGranted(cid, expiresIn, ival)
         /\ issuedTo' = MapSet(issuedTo, InternalDeviceCode, cid)
         /\ UNCHANGED <<bridgeVars, registryVars>>
    ELSE InitiateFails(cid, mode)

----------------------------------------------------------------------------
(* Client: pollForAuthorization *)

\* defaults of the parameters interval and timeout, and the slow_down step
DefaultInterval == 50
DefaultTimeout == 300
SlowDownStep == 5

ExpiredMessage == "Authorization request expired"
TimeoutMessage == "Authorization timed out"

NoOutcome == [kind |-> "none", token |-> NoToken, message |-> ""]
Returned(t) == [kind |-> "token", token |-> t, message |-> ""]
Threw(m) == [kind |-> "error", token |-> NoToken, message |-> m]

\* What one status request can end in: a success response carrying a token
\* set, a non-success response carrying {error, error_description}, or an
\* exception of fetch or response.json().
ClientAnswers ==
    {[type |-> "ok", error |-> "", desc |-> NoDesc, token |-> t] : t \in {1, 2}}
    \cup {[type |-> "error", error |-> x[1], desc |-> x[2], token |-> NoToken] :
            x \in {<<"authorization_pending", "The user has not yet authorized this device">>,
                   <<"slow_down", "Polling too frequently, slow down">>,
                   <<"expired_token", "Device code has expired">>,
                   <<"invalid_grant", "Device code not found">>,
                   <<"server_error", NoDesc>>,
                   <<"access_denied", ExpiredMessage>>}}
    \cup {[type |-> "exception", error |-> "", desc |-> NoDesc, token |-> NoToken]}

NoClientAnswer == [type |-> "none", error |-> "", desc |-> NoDesc, token |-> NoToken]

\* `data.error_description || data.error`
Message(ans) == IF ans.desc # NoDesc THEN ans.desc ELSE ans.error

\* The branch of the loop body an answer takes.
AnswerClass(ans) ==
    IF ans.type = "exception" THEN "exception"
    ELSE IF ans.type = "ok" THEN "success"
    ELSE IF ans.error = "authorization_pending" THEN "pending"
    ELSE IF ans.error = "slow_down" THEN "slow_down"
    ELSE IF ans.error = "expired_token" THEN "expired"
    ELSE "other"

\* The message of the error the try block raises on an answer.
Raised(ans) ==
    CASE AnswerClass(ans) = "expired" -> ExpiredMessage
      [] AnswerClass(ans) = "other" -> Message(ans)
      [] OTHER -> "fetch failed"

RethrowsAll(m) == TRUE
\* Rethrows that lets the failure of a request out of the loop as well
RethrowsFetchFailure(m) == m \in {"Authorization request expired", "fetch failed"}
\* Rethrows that lets every error an answer carries out of the loop
RethrowsAnswerErrors(m) == m # "fetch failed"
RethrowsNone(m) == FALSE

\* the catch block's `error.message === 'Authorization request expired'`
Rethrows(m) == m = ExpiredMessage

\* interval grows on every failed attempt
NextIntervalBackoff(cls, ival) ==
    IF cls \in {"slow_down", "exception", "other"} THEN ival + SlowDownStep ELSE ival

\* interval doubles on slow_down
NextIntervalDoubling(cls, ival) ==
    IF cls = "slow_down" THEN 2 * ival ELSE ival

\* `interval += 5` of the slow_down branch
NextInterval(cls, ival) ==
    IF cls = "slow_down" THEN ival + SlowDownStep ELSE ival

\* AfterAnswer without the return of the success path
AfterAnswerNoReturn(ans) ==
    CASE AnswerClass(ans) \in {"expired", "other", "exception"} /\ Rethrows(Raised(ans))
            -> "throw"
      [] OTHER -> "loop"

\* Where control goes after an answer: out of the function by return or by
\* throw, or back to the loop test.
AfterAnswer(ans) ==
    CASE AnswerClass(ans) = "success" -> "return"
      [] AnswerClass(ans) \in {"expired", "other", "exception"} /\ Rethrows(Raised(ans))
            -> "throw"
      [] OTHER -> "loop"

\* calls of onPending and of onError an answer causes
PendingCalls(ans) == IF AnswerClass(ans) = "pending" THEN 1 ELSE 0
ErrorCalls(ans) ==
    (IF AnswerClass(ans) \in {"expired", "other"} THEN 1 ELSE 0)
    + (IF AnswerClass(ans) \in {"expired", "other", "exception"} /\ ~Rethrows(Raised(ans))
       THEN 1 ELSE 0)

ClientStats0 ==
    [requests |-> 0, answers |-> 0, pendingAnswers |-> 0, slowDowns |-> 0,
     onPending |-> 0, onError |-> 0, sleeps |-> 0, lastSleep |-> 0,
     lastEventAt |-> 0, initialInterval |-> 0, endTime |-> 0, storedCode |-> 0,
     exceptions |-> 0,
     authCalls |-> 0, authRequests |-> 0, authOutcome |-> "", lastAuthCode |-> 0]

\* getDeviceCode(): 0 stands for undefined
GetDeviceCode == IF memDeviceCode # 0 THEN memDeviceCode ELSE fileDeviceCode

\* tokens(): the content of the session-token file, NoToken for undefined.
\* saveTokens writes JSON.stringify of the token set the response carried and
\* tokens() returns JSON.parse of the file: the same token set.
Tokens == tokenFile

\* clearDeviceCode() that forgets the device code but keeps its file
ClearDeviceCodeMemoryOnly == [mem |-> 0, file |-> fileDeviceCode]

\* clearDeviceCode(): this._deviceCode and the device-code file after it
ClearDeviceCode == [mem |-> 0, file |-> 0]

NoClientInfoMessage == "No client information available"
NoDeviceCodeMessage == "No device code available"

\* What the device-authorization request of authorizeHeadless can end in: a
\* success response carrying a device code, a non-success response, or an
\* exception of fetch.
AuthorizeAnswers ==
    {[type |-> "ok", device_code |-> d] : d \in {1, 2}}
    \cup {[type |-> "status", device_code |-> 0], [type |-> "exception", device_code |-> 0]}

\* saveDeviceCode that writes no file
SaveDeviceCodeMemoryOnly(d) == [mem |-> d, file |-> fileDeviceCode]

\* saveDeviceCode(d): this._deviceCode and the device-code file after it
SaveDeviceCode(d) == [mem |-> d, file |-> d]

\* What authorizeHeadless returns ("device": the response) or throws.
AuthorizeOutcome(resp) ==
    IF ~clientInfo THEN NoClientInfoMessage
    ELSE CASE resp.type = "ok" -> "device"
           [] resp.type = "status" -> "Device authorization failed"
           [] OTHER -> "fetch failed"

\* authorizeHeadless(), whose request ends in resp
AuthorizeHeadless(resp) ==
    /\ pc = "idle"
    /\ stats.authCalls < MaxAuthorize
    /\ LET saved == IF AuthorizeOutcome(resp) = "device" THEN SaveDeviceCode(resp.device_code)
                    ELSE [mem |-> memDeviceCode, file |-> fileDeviceCode] IN
       /\ memDeviceCode' = saved.mem
       /\ fileDeviceCode' = saved.file
    /\ stats' = [stats EXCEPT
                   !.authCalls = @ + 1,
                   !.authRequests = @ + (IF clientInfo THEN 1 ELSE 0),
                   !.authOutcome = AuthorizeOutcome(resp),
                   !.lastAuthCode = IF AuthorizeOutcome(resp) = "device" THEN resp.device_code
                                    ELSE @]
    /\ UNCHANGED <<now, serverVars, sideVars, pc, interval, maxTime, startTime, pollCode,
                   clientInfo, tokenFile, outcome, lastAns>>

\* a new provider instance over the same storage directory
NewInstance ==
    /\ pc = "idle"
    /\ memDeviceCode # 0
    /\ memDeviceCode' = 0
    /\ UNCHANGED <<now, serverVars, sideVars, pc, interval, maxTime, startTime, pollCode,
                   clientInfo, fileDeviceCode, tokenFile, outcome, lastAns, stats>>

\* pollForAuthorization({deviceCode, interval, timeout}) up to the loop
Invoke(dc, ival, tmo) ==
    /\ pc = "idle"
    /\ LET code == IF dc # 0 THEN dc ELSE GetDeviceCode IN
       IF ~clientInfo
       THEN /\ pc' = "rejected"
            /\ outcome' = Threw(NoClientInfoMessage)
            /\ UNCHANGED <<interval, maxTime, startTime, pollCode, stats>>
       ELSE IF code = 0
       THEN /\ pc' = "rejected"
            /\ outcome' = Threw(NoDeviceCodeMessage)
            /\ UNCHANGED <<interval, maxTime, startTime, pollCode, stats>>
       ELSE /\ pc' = "loop"
            /\ pollCode' = code
            /\ interval' = ival
            /\ startTime' = now
            /\ maxTime' = now + tmo
            /\ stats' = [stats EXCEPT !.initialInterval = ival, !.lastEventAt = now,
                                       !.storedCode = GetDeviceCode]
            /\ outcome' = outcome
    /\ UNCHANGED <<now, serverVars, sideVars, clientInfo, memDeviceCode, fileDeviceCode, tokenFile,
                   lastAns>>

\* `while (Date.now() < maxTime)`, and the throw after the loop
LoopTest ==
    /\ pc = "loop"
    /\ IF now < maxTime
       THEN /\ pc' = "sleep"
            /\ UNCHANGED <<outcome, stats>>
       ELSE /\ pc' = "done"
            /\ outcome' = Threw(TimeoutMessage)
            /\ stats' = [stats EXCEPT !.endTime = now]
    /\ UNCHANGED <<now, serverVars, sideVars, interval, maxTime, startTime, pollCode, clientInfo,
                   memDeviceCode, fileDeviceCode, tokenFile, lastAns>>

\* `await new Promise(resolve => setTimeout(resolve, interval * 1000))`
Sleep(lag) ==
    /\ pc = "sleep"
    /\ now' = now + interval + lag
    /\ pc' = "fetch"
    /\ stats' = [stats EXCEPT !.sleeps = @ + 1, !.lastSleep = interval]
    /\ UNCHANGED <<serverVars, sideVars, interval, maxTime, startTime, pollCode, clientInfo,
                   memDeviceCode, fileDeviceCode, tokenFile, outcome, lastAns>>

\* the status request is sent: what it does to the client
FetchSent ==
    /\ pc = "fetch"
    /\ stats.requests < MaxPolls
    /\ pc' = "wait"
    /\ stats' = [stats EXCEPT !.requests = @ + 1]
    /\ UNCHANGED <<interval, maxTime, startTime, pollCode, clientInfo,
                   memDeviceCode, fileDeviceCode, tokenFile, outcome, lastAns>>

\* the status request is sent, to a server this model leaves out
Fetch == FetchSent /\ UNCHANGED <<now, serverVars, sideVars>>

\* StoredAfter that clears the device code when the answer is expired_token
\* as well
StoredAfterClearsOnExpiry(ans) ==
    IF AnswerClass(ans) = "success"
    THEN [token |-> ans.token, mem |-> ClearDeviceCode.mem, file |-> ClearDeviceCode.file]
    ELSE IF AnswerClass(ans) = "expired"
    THEN [token |-> tokenFile, mem |-> ClearDeviceCode.mem, file |-> ClearDeviceCode.file]
    ELSE [token |-> tokenFile, mem |-> memDeviceCode, file |-> fileDeviceCode]

\* The token file, this._deviceCode and the device-code file after the loop
\* body has run on an answer: saveTokens and clearDeviceCode on the success
\* path, nothing on any other.
StoredAfter(ans) ==
    IF AnswerClass(ans) = "success"
    THEN [token |-> ans.token, mem |-> ClearDeviceCode.mem, file |-> ClearDeviceCode.file]
    ELSE [token |-> tokenFile, mem |-> memDeviceCode, file |-> fileDeviceCode]

\* the rest of the loop body, from the answer on
Answer(ans, latency) ==
    /\ pc = "wait"
    /\ now' = now + latency
    /\ lastAns' = ans
    /\ interval' = NextInterval(AnswerClass(ans), interval)
    /\ pc' = IF AfterAnswer(ans) = "loop" THEN "loop" ELSE "done"
    /\ outcome' = CASE AfterAnswer(ans) = "return" -> Returned(ans.token)
                    [] AfterAnswer(ans) = "throw" -> Threw(Raised(ans))
                    [] OTHER -> outcome
    /\ tokenFile' = StoredAfter(ans).token
    /\ memDeviceCode' = StoredAfter(ans).mem
    /\ fileDeviceCode' = StoredAfter(ans).file
    /\ stats' = [stats EXCEPT
                   !.answers = @ + 1,
                   !.pendingAnswers = @ + (IF AnswerClass(ans) = "pending" THEN 1 ELSE 0),
                   !.slowDowns = @ + (IF AnswerClass(ans) = "slow_down" THEN 1 ELSE 0),
                   !.exceptions = @ + (IF AnswerClass(ans) = "exception" THEN 1 ELSE 0),
                   !.onPending = @ + PendingCalls(ans),
                   !.onError = @ + ErrorCalls(ans),
                   !.lastEventAt = now + latency,
                   !.endTime = IF AfterAnswer(ans) = "loop" THEN @ ELSE now + latency]
    /\ UNCHANGED <<serverVars, sideVars, maxTime, startTime, pollCode, clientInfo>>

ClientIdle ==
    /\ pc = "idle"
    /\ interval = 0
    /\ maxTime = 0
    /\ startTime = 0
    /\ pollCode = 0
    /\ clientInfo = TRUE
    /\ memDeviceCode = 0
    /\ fileDeviceCode = 0
    /\ tokenFile = NoToken
    /\ outcome = NoOutcome
    /\ lastAns = NoClientAnswer
    /\ stats = ClientStats0

----------------------------------------------------------------------------
(* The server *)

\* the server's fields after construction, but for the persisted client file
FieldsInit ==
    /\ now = 0
    /\ deviceCodes = EmptyMap
    /\ tokenStore = EmptyMap
    /\ nIssued = 0
    /\ nMinted = 0
    /\ inflight = EmptyMap
    /\ ev = Event("init", 0, NoResult, FALSE)
    /\ tempAuthCodes = EmptyMap
    /\ nTempCodes = 0
    /\ redeemed = {}
    /\ prev = [d \in {} |-> "other"]
    /\ clientsMap = {}
    /\ loadPc = "access"
    /\ pendingSaves = {}
    /\ registered = {}
    /\ issuedTo = [d \in {} |-> ""]

\* a server started with no persisted client file
ServerInit == FieldsInit /\ clientsFile = NoFile

Init == ServerInit /\ ClientIdle

Next ==
    \/ /\ nIssued < MaxCodes
       /\ \E c \in ClientIds, e \in 1..MaxExpiresIn, i \in ProviderIntervals :
             InitiateDeviceFlow(c, e, i)
    \/ \E d \in 0..MaxCodes : CheckEntry(d)
    \/ \E call \in DOMAIN inflight, ans \in ProviderAnswers : ProviderAnswer(call, ans)
    \/ Tick

Spec == Init /\ [][Next]_vars

\* The server with verifyAccessToken and the sweep timer.  Its device flows
\* come one after the other (a flow begins when the registry is empty) and
\* its status checks one at a time (a call is made when no other awaits the
\* provider); its clock also jumps by the validity of a session token.
TokenNext ==
    \/ /\ nIssued < MaxFlows
       /\ deviceCodes = EmptyMap
       /\ \E c \in ClientIds, e \in 1..MaxExpiresIn, i \in ProviderIntervals :
             InitiateDeviceFlow(c, e, i)
    \/ BagSize(inflight) = 0 /\ \E d \in 0..MaxFlows : CheckEntry(d)
    \/ \E call \in DOMAIN inflight, ans \in ProviderAnswers : ProviderAnswer(call, ans)
    \/ \E t \in 1..MaxMinted : VerifyAccessToken(t)
    \/ Sweep
    \/ \E s \in {1, TokenTTL} : Pass(s)

TokenSpec == Init /\ [][TokenNext]_vars

\* TokenSpec with what the scheduling of the server guarantees: the
\* constructor's setInterval timer fires again and again, so the sweep is
\* not postponed forever, and time passes.  Nothing obliges a client to send
\* a request.
FairTokenSpec ==
    TokenSpec /\ WF_vars(Sweep) /\ WF_vars(\E s \in {1, TokenTTL} : Pass(s))

\* The server with several device flows, whose device-code requests may
\* fail.  Its status checks come one at a time.
FlowNext ==
    \/ /\ nIssued < MaxFlows
       /\ \E c \in ClientIds, e \in 1..MaxExpiresIn, i \in ProviderIntervals :
             InitiateDeviceFlow(c, e, i)
    \/ \E c \in ClientIds, mode \in {"network", "status"} : InitiateFails(c, mode)
    \/ BagSize(inflight) = 0 /\ \E d \in 0..MaxFlows : CheckEntry(d)
    \/ \E call \in DOMAIN inflight, ans \in ProviderAnswers : ProviderAnswer(call, ans)
    \/ Tick

FlowSpec == Init /\ [][FlowNext]_vars

\* The server with the authorization-code bridge and the operations that are
\* not implemented, beside a device flow whose user authorizes,
\* verifyAccessToken and a clock that also jumps by the validity of a session
\* token.
BridgeNext ==
    \/ /\ nIssued = 0
       /\ \E c \in ClientIds, i \in ProviderIntervals :
             InitiateDeviceFlow(c, MaxExpiresIn, i)
    \/ BagSize(inflight) = 0 /\ \E d \in DOMAIN deviceCodes : CheckEntry(d)
    \/ \E call \in DOMAIN inflight, ans \in {a \in ProviderAnswers : a.type = "success"} :
          ProviderAnswer(call, ans)
    \/ /\ nTempCodes < MaxTempCodes
       /\ \E t \in 1..MaxMinted : LegacyCallback(t, MaxCodeTTL)
    \/ \E c \in ClientIds, code \in 0..MaxTempCodes : ExchangeAuthorizationCode(c, code)
    \/ \E c \in ClientIds, code \in 0..MaxTempCodes : ChallengeForAuthorizationCode(c, code)
    \/ \E c \in ClientIds, issued \in BOOLEAN : ExchangeRefreshToken(c, issued)
    \/ \E c \in ClientIds, t \in 0..MaxMinted : RevokeToken(c, t)
    \/ \E t \in 1..MaxMinted : VerifyAccessToken(t)
    \/ \E s \in {1, TokenTTL} : Pass(s)

BridgeSpec == Init /\ [][BridgeNext]_vars

\* a lifetime of the provider's device code longer than the validity of a
\* session token
LongExpiresIn == 2 * TokenTTL

\* TokenSpec with a provider whose device codes may live longer than a
\* session token does.
TokenLifeNext ==
    \/ /\ nIssued < MaxFlows
       /\ deviceCodes = EmptyMap
       /\ \E c \in ClientIds, e \in (1..MaxExpiresIn) \cup {LongExpiresIn},
             i \in ProviderIntervals : InitiateDeviceFlow(c, e, i)
    \/ BagSize(inflight) = 0 /\ \E d \in 0..MaxFlows : CheckEntry(d)
    \/ \E call \in DOMAIN inflight, ans \in ProviderAnswers : ProviderAnswer(call, ans)
    \/ \E t \in 1..MaxMinted : VerifyAccessToken(t)
    \/ Sweep
    \/ \E s \in {1, TokenTTL} : Pass(s)

TokenLifeSpec == Init /\ [][TokenLifeNext]_vars

\* The registered-client store of a server started over any persisted client
\* file, or none: registrations, the load the constructor started and the
\* saves complete in any order.
RegistryInit ==
    /\ FieldsInit
    /\ ClientIdle
    /\ clientsFile \in {NoFile} \cup {FileOf(S) : S \in SUBSET ClientIds}

RegistryNext ==
    \/ LoadAccess
    \/ LoadRead
    \/ \E c \in ClientIds : RegisterClient(c)
    \/ \E content \in pendingSaves : SaveCompletes(content)

RegistrySpec == RegistryInit /\ [][RegistryNext]_vars

\* The server behind its device-flow routes: clients register, and the
\* requests of registered and unregistered clients come in any order, a
\* status request when no other awaits the provider.
RouteNext ==
    \/ \E c \in ClientIds : RegisterClient(c)
    \/ \E cid \in RequestClientIds, mode \in {"granted", "network", "status"},
          i \in ProviderIntervals : DeviceAuthorizeRoute(cid, mode, MaxExpiresIn, i)
    \/ BagSize(inflight) = 0 /\ \E cid \in RequestClientIds, d \in 0..MaxCodes :
                                   DeviceTokenRoute(cid, d)
    \/ \E call \in DOMAIN inflight, ans \in ProviderAnswers : ProviderAnswer(call, ans)
    \/ \E t \in 1..MaxMinted : VerifyAccessToken(t)
    \/ Tick

RouteSpec == Init /\ [][RouteNext]_vars

----------------------------------------------------------------------------
(* The client *)

\* A client whose storage may hold client information and a device code: no
\* device code, one left in the file by an earlier process, or one that
\* saveDeviceCode put in memory and in the file.
ClientInit ==
    /\ ServerInit
    /\ pc = "idle"
    /\ interval = 0
    /\ maxTime = 0
    /\ startTime = 0
    /\ pollCode = 0
    /\ clientInfo \in BOOLEAN
    /\ fileDeviceCode \in {0, 1}
    /\ memDeviceCode \in {0, fileDeviceCode}
    /\ tokenFile = NoToken
    /\ outcome = NoOutcome
    /\ lastAns = NoClientAnswer
    /\ stats = ClientStats0

ClientNext ==
    \/ \E dc \in {0, 1}, ival \in (0..MaxInterval) \cup {DefaultInterval},
          tmo \in (0..MaxTimeout) \cup {DefaultTimeout} : Invoke(dc, ival, tmo)
    \/ LoopTest
    \/ \E lag \in 0..MaxLag : Sleep(lag)
    \/ Fetch
    \/ \E ans \in ClientAnswers, latency \in 0..MaxLatency : Answer(ans, latency)

ClientSpec == ClientInit /\ [][ClientNext]_vars

\* The client with authorizeHeadless before pollForAuthorization, by one
\* provider instance or by one after the other over the same storage.
StorageNext ==
    \/ \E resp \in AuthorizeAnswers : AuthorizeHeadless(resp)
    \/ NewInstance
    \/ \E dc \in 0..2 : Invoke(dc, MaxInterval, MaxTimeout)
    \/ LoopTest
    \/ Sleep(0)
    \/ Fetch
    \/ \E ans \in ClientAnswers : Answer(ans, 0)

StorageSpec == ClientInit /\ [][StorageNext]_vars

\* pollForAuthorization has returned or thrown: the caller goes on and may
\* call the provider again
CallEnds ==
    /\ pc \in {"done", "rejected"}
    /\ pc' = "idle"
    /\ UNCHANGED <<now, serverVars, sideVars, interval, maxTime, startTime, pollCode,
                   clientInfo, memDeviceCode, fileDeviceCode, tokenFile, outcome, lastAns,
                   stats>>

\* The client calling pollForAuthorization again and again, over a device
\* code that authorizeHeadless saved before the first call, by one provider
\* instance or by one after the other over the same storage.
RetryNext ==
    \/ outcome = NoOutcome /\ \E resp \in AuthorizeAnswers : AuthorizeHeadless(resp)
    \/ NewInstance
    \/ \E dc \in 0..1 : Invoke(dc, MaxInterval, MaxTimeout)
    \/ LoopTest
    \/ Sleep(0)
    \/ Fetch
    \/ \E ans \in ClientAnswers : Answer(ans, 0)
    \/ CallEnds

RetrySpec == ClientInit /\ [][RetryNext]_vars

----------------------------------------------------------------------------
(* The client polling the server *)

\* what the catch block of a route answers with
ServerError(m) == ErrorResult("server_error", m)

\* HttpStatus that answers slow_down like authorization_pending and a
\* server_error with the default status
HttpStatusLenient(res) ==
    IF res.kind = "throw" THEN 500
    ELSE IF res.kind = "error"
    THEN (IF res.error \in {"authorization_pending", "slow_down"} THEN 400
          ELSE IF res.error = "server_error" THEN 200
          ELSE 401)
    ELSE 200

\* The status POST /device/token answers with to what checkDeviceCodeStatus
\* returned or threw; `res.json(result)` leaves the default status, 200.
HttpStatus(res) ==
    IF res.kind = "throw" THEN 500
    ELSE IF res.kind = "error"
    THEN (IF res.error = "authorization_pending" THEN 400 ELSE 401)
    ELSE 200

\* The response of POST /device/token whose handling ended in event e: the
\* rejection of the request, the engine's result, or the catch block's body.
TokenResponse(e) ==
    IF e.op = "token" THEN [status |-> 400, body |-> e.result]
    ELSE [status |-> HttpStatus(e.result),
          body |-> IF e.result.kind = "throw" THEN ServerError(e.result.message)
                   ELSE e.result]

\* `response.ok`
ResponseOk(status) == status \in 200..299

\* what saveTokens writes when the body it is given is no token set
ErrorObject == -1

\* What the client's loop body has in hand after `await response.json()`:
\* whether the response was ok, and the body's error, error_description and
\* token set.
Received(resp) ==
    [type |-> IF ResponseOk(resp.status) THEN "ok" ELSE "error",
     error |-> resp.body.error,
     desc |-> IF resp.body.error_description = "" THEN NoDesc
              ELSE resp.body.error_description,
     token |-> IF ~ResponseOk(resp.status) THEN NoToken
               ELSE IF resp.body.kind = "token" THEN resp.body.access_token
               ELSE ErrorObject]

\* the client_id of the client's stored client information
OwnClientId == "c1"
OtherClientIds == RequestClientIds \ {OwnClientId}

\* the server has answered the status request the client waits on
ResponseReady ==
    /\ pc = "wait"
    /\ ev.op \in {"token", "entry", "answer"}
    /\ ev.caller = OwnClientId
    /\ ev.result.kind # "none"

\* the client's status request, handled by the route up to its response or
\* to the engine's await of the provider
Poll == FetchSent /\ TokenRouteServed(OwnClientId, pollCode)

\* the client gets the response and runs the rest of the loop body
Receive == ResponseReady /\ Answer(Received(TokenResponse(ev)), 0)

\* The client polls the server for the device code of the server's first
\* device flow: clients register and the flow begins before the client
\* polls, another client polls for the same device code when no status
\* check awaits the provider, and the provider answers each status check in
\* any order.
PollNext ==
    \/ pc = "idle" /\ \E c \in ClientIds : RegisterClient(c)
    \/ pc = "idle" /\ nIssued = 0 /\ \E cid \in ClientIds, i \in ProviderIntervals :
                         DeviceAuthorizeRoute(cid, "granted", MaxExpiresIn, i)
    \/ \E ival \in {0, 1} : Invoke(1, ival, MaxTimeout)
    \/ LoopTest
    \/ Sleep(0)
    \/ Poll
    \/ pc # "wait" /\ BagSize(inflight) = 0 /\ \E cid \in OtherClientIds :
                                                  DeviceTokenRoute(cid, 1)
    \/ ~ResponseReady /\ \E call \in DOMAIN inflight, ans \in ProviderAnswers :
                            ProviderAnswer(call, ans)
    \/ Receive

PollSpec == Init /\ [][PollNext]_vars

----------------------------------------------------------------------------
(* Properties of checkDeviceCodeStatus, checked under Spec *)

\* a step in which checkDeviceCodeStatus(d) is called
EntryStep(d) == ev'.op = "entry" /\ ev'.code = d
LocallyExpired(d) == d \in DOMAIN deviceCodes /\ deviceCodes[d].expiresAt < now
IsError(res, e) == res.kind = "error" /\ res.error = e

\* C1 (as claimed): when the last call that returned for device code d
\* resolved the session and returned the minted token, the next
\* checkDeviceCodeStatus(d), made before the session expires, returns
\* invalid_grant.
C1_NextCheckAfterResolveIsInvalidGrant ==
    [][\A d \in DOMAIN prev :
          (prev[d] = "minted" /\ EntryStep(d) /\ ~LocallyExpired(d))
              => IsError(ev'.result, "invalid_grant")]_vars

\* C2 (as claimed): of the calls that await the provider for the same device
\* code at the same time, at most one returns a token: no call returns a
\* token after one that awaited together with it has returned one.
C2_AtMostOneConcurrentToken ==
    ~(ev.op = "answer" /\ ev.result.kind = "token" /\ ev.peerToken)

\* C3: a call for a session whose expiry has passed returns expired_token,
\* sends no provider poll, mints nothing and removes the session, whether or
\* not a session token is attached; and when the last call that returned for
\* a code found it expired, the next call for that code returns invalid_grant.
C3_ExpiredSession ==
    [][\A d \in DOMAIN prev :
          EntryStep(d) =>
            /\ LocallyExpired(d) =>
                  /\ ev'.result = ErrorResult("expired_token", "Device code has expired")
                  /\ d \notin DOMAIN deviceCodes'
                  /\ inflight' = inflight
                  /\ tokenStore' = tokenStore
            /\ prev[d] = "expired" => IsError(ev'.result, "invalid_grant")]_vars

\* C3 witness: an expired session with a session token attached was checked
\* and is gone.
C3_Witness ==
    /\ ev.op = "entry"
    /\ IsError(ev.result, "expired_token")
    /\ prev[ev.code] = "expired"
    /\ ev.code \notin DOMAIN deviceCodes
    /\ tokenStore # EmptyMap
    /\ nIssued = 1

\* C4: a call for a code that is no key of the registry returns invalid_grant
\* (a returned value), sends no provider poll, and leaves the registry and the
\* session-token store as they were.
C4_UnknownCode ==
    [][\A d \in 0..MaxCodes :
          (EntryStep(d) /\ d \notin DOMAIN deviceCodes) =>
            /\ ev'.result = ErrorResult("invalid_grant", "Device code not found")
            /\ deviceCodes' = deviceCodes
            /\ tokenStore' = tokenStore
            /\ inflight' = inflight]_vars

\* C4 witness: a code that was issued and then consumed or expired was
\* checked again.
C4_Witness ==
    /\ ev.op = "entry"
    /\ IsError(ev.result, "invalid_grant")
    /\ ev.code \in 1..nIssued

\* a step in which a call of checkDeviceCodeStatus(d) mints a session token
\* and returns it
MintStep(d) == ev'.op = "answer" /\ ev'.code = d /\ ev'.result.kind = "token"
Attached(d) == d \in DOMAIN deviceCodes /\ deviceCodes[d].sessionToken # NoToken

\* C14 (as claimed): at most one resolution per device session.  No call
\* mints a token for a code after a call that awaited the provider for that
\* code together with it has minted one; and while a session has a session
\* token attached, no call for its code goes to the provider and no step
\* attaches another token to it.
C14_AtMostOneResolution ==
    [][\A d \in DOMAIN prev :
          /\ MintStep(d) => ~ev'.peerToken
          /\ Attached(d) =>
                /\ ~(EntryStep(d) /\ inflight' # inflight)
                /\ ~MintStep(d)
                /\ d \in DOMAIN deviceCodes' =>
                      deviceCodes'[d].sessionToken = deviceCodes[d].sessionToken]_vars

Pending(d) == d \in DOMAIN deviceCodes /\ deviceCodes[d].sessionToken = NoToken

\* C15: a step mints at most one session token, and only as a status check
\* that returns it.  When such a check finds its session pending and
\* unexpired, the minted token is new to the store, which is otherwise as it
\* was; the stored token expires 3600 s from now, carries the session's client
\* identifier, the scopes read:user and user:email and the provider's access
\* token; the session is as it was but for the minted value attached; and the
\* call returns access_token = the minted value, the key of the stored token
\* and not the provider's access token kept in it, token_type Bearer and
\* expires_in 3600.
C15_SuccessMints ==
    [][/\ nMinted' # nMinted => nMinted' = nMinted + 1 /\ \E d \in DOMAIN prev : MintStep(d)
       /\ \A d \in DOMAIN prev :
            (MintStep(d) /\ Pending(d) /\ ~LocallyExpired(d)) =>
               LET t == ev'.result.access_token IN
               /\ nMinted' = nMinted + 1
               /\ t \notin DOMAIN tokenStore
               /\ DOMAIN tokenStore' = DOMAIN tokenStore \cup {t}
               /\ \A u \in DOMAIN tokenStore : tokenStore'[u] = tokenStore[u]
               /\ tokenStore'[t].expiresAt = now + 3600
               /\ tokenStore'[t].clientId = deviceCodes[d].clientId
               /\ tokenStore'[t].scopes = {"read:user", "user:email"}
               /\ tokenStore'[t].githubToken \in ProviderTokens
               /\ deviceCodes' = [deviceCodes EXCEPT ![d].sessionToken = t]
               /\ ev'.result.token_type = "Bearer"
               /\ ev'.result.expires_in = 3600]_vars

\* C15 witness: a status check minted the first token and attached it to its
\* session.
C15_Witness ==
    /\ ev.op = "answer"
    /\ ev.result.kind = "token"
    /\ ~ev.peerToken
    /\ nMinted = 1
    /\ ev.code \in DOMAIN deviceCodes
    /\ deviceCodes[ev.code].sessionToken = ev.result.access_token
    /\ tokenStore[ev.result.access_token].clientId = deviceCodes[ev.code].clientId

\* C16: the provider's authorization_pending and slow_down are returned with
\* the same error code; the call that returns one of them leaves the registry
\* (so the session: present or not, pending, its expiry and its interval) and
\* the session-token store as they were; and no step changes the interval of
\* a session.
C16_PendingAndSlowDownPassThrough ==
    [][/\ \A ans \in ProviderAnswers :
             (ans.type = "error" /\ ans.error \in {"authorization_pending", "slow_down"})
                => IsError(AnswerResult(ans), ans.error)
       /\ (ev'.op = "answer" /\ (\/ IsError(ev'.result, "authorization_pending")
                                 \/ IsError(ev'.result, "slow_down"))) =>
             /\ deviceCodes' = deviceCodes
             /\ tokenStore' = tokenStore
       /\ \A d \in DOMAIN deviceCodes \cap DOMAIN deviceCodes' :
             deviceCodes'[d].interval = deviceCodes[d].interval]_vars

\* C16 witness: a call returned slow_down and its session is there, pending.
C16_Witness ==
    /\ ev.op = "answer"
    /\ IsError(ev.result, "slow_down")
    /\ ev.code \in DOMAIN deviceCodes
    /\ deviceCodes[ev.code].sessionToken = NoToken
    /\ deviceCodes[ev.code].interval \in ProviderIntervals

\* C17 (as claimed): after a call of checkDeviceCodeStatus that returned
\* expired_token, at its entry or from the provider's answer, the session of
\* its device code is not in the registry.
C17_ExpiredTokenRemovesSession ==
    (ev.op \in {"entry", "answer"} /\ IsError(ev.result, "expired_token"))
        => ev.code \notin DOMAIN deviceCodes

----------------------------------------------------------------------------
(* Properties of verifyAccessToken and of the sweep, checked under TokenSpec
   and FairTokenSpec *)

\* C18 (as claimed): a session in the registry whose expiry has passed is
\* eventually removed from the registry, whether or not its code is checked
\* again.
C18_ExpiredSessionEventuallyRemoved ==
    \A d \in 1..MaxFlows : LocallyExpired(d) ~> (d \notin DOMAIN deviceCodes)

\* a step in which verifyAccessToken(t) is called
VerifyStep(t) == ev'.op = "verify" /\ ev'.code = t
\* the step before minted token t: a status check returned it
JustMinted(t) == ev.op = "answer" /\ ev.result.kind = "token" /\ ev.result.access_token = t
StoredExpired(t) == t \in DOMAIN tokenStore /\ tokenStore[t].expiresAt < now
Evicted(t) == t \in 1..nMinted /\ t \notin DOMAIN tokenStore

\* C12 (as claimed): verifyAccessToken on the token the status check of the
\* step before minted returns the client identifier of that check's session
\* and the granted scopes; verifyAccessToken on a token that was evicted from
\* the store, or whose expiry has passed, fails with InvalidToken.
C12_VerifyMintedElseInvalid ==
    [][\A t \in 1..MaxMinted :
          VerifyStep(t) =>
            /\ JustMinted(t) =>
                  /\ ev'.result.kind = "authinfo"
                  /\ ev'.result.clientId = deviceCodes[ev.code].clientId
                  /\ ev'.result.scopes = GrantedScopes
            /\ (Evicted(t) \/ StoredExpired(t)) =>
                  ev'.result = Thrown(InvalidTokenMessage)]_vars

\* C12 (amended): verifyAccessToken on the token the status check of the step
\* before minted returns the client identifier of that check's session and the
\* granted scopes; on a token that was evicted from the store it fails with
\* InvalidToken; on a token still in the store whose expiry has passed it
\* fails with TokenExpired.
C12_VerifyMintedElseInvalidOrExpired ==
    [][\A t \in 1..MaxMinted :
          VerifyStep(t) =>
            /\ JustMinted(t) =>
                  /\ ev'.result.kind = "authinfo"
                  /\ ev'.result.token = t
                  /\ ev'.result.clientId = deviceCodes[ev.code].clientId
                  /\ ev'.result.scopes = GrantedScopes
            /\ Evicted(t) => ev'.result = Thrown(InvalidTokenMessage)
            /\ StoredExpired(t) => ev'.result = Thrown(TokenExpiredMessage)]_vars

\* C12 witness: a token was verified while the session it was minted for still
\* holds it, and the client identifiers agree.
C12_Witness ==
    /\ ev.op = "verify"
    /\ ev.result.kind = "authinfo"
    /\ \E d \in DOMAIN deviceCodes :
          /\ deviceCodes[d].sessionToken = ev.code
          /\ deviceCodes[d].clientId = ev.result.clientId

\* C13: verifyAccessToken(t) fails with InvalidToken when t is not in the
\* store, and leaves the store as it was; when t is in the store and its
\* expiry has passed it fails with TokenExpired and removes t and nothing
\* else, and a verifyAccessToken(t) that follows at once fails with
\* InvalidToken; when t is in the store and its expiry has not passed it
\* returns t, the stored client identifier, scopes and expiry, and leaves the
\* store as it was.
C13_VerifyCases ==
    [][\A t \in 1..MaxMinted :
          VerifyStep(t) =>
            /\ t \notin DOMAIN tokenStore =>
                  /\ ev'.result = Thrown(InvalidTokenMessage)
                  /\ tokenStore' = tokenStore
            /\ StoredExpired(t) =>
                  /\ ev'.result = Thrown(TokenExpiredMessage)
                  /\ DOMAIN tokenStore' = DOMAIN tokenStore \ {t}
                  /\ \A u \in DOMAIN tokenStore' : tokenStore'[u] = tokenStore[u]
            /\ (t \in DOMAIN tokenStore /\ ~StoredExpired(t)) =>
                  /\ ev'.result = [kind |-> "authinfo", token |-> t,
                                   clientId |-> tokenStore[t].clientId,
                                   scopes |-> tokenStore[t].scopes,
                                   expiresAt |-> tokenStore[t].expiresAt]
                  /\ tokenStore' = tokenStore
            /\ (ev.op = "verify" /\ ev.code = t /\ ev.result = Thrown(TokenExpiredMessage)) =>
                  ev'.result = Thrown(InvalidTokenMessage)]_vars

\* C13 witness: an expired token was verified and is gone from the store,
\* which still holds another token.
C13_Witness ==
    /\ ev.op = "verify"
    /\ ev.result = Thrown(TokenExpiredMessage)
    /\ ev.code \notin DOMAIN tokenStore
    /\ tokenStore # EmptyMap

Unexpired(t) == t \in DOMAIN tokenStore /\ ~(tokenStore[t].expiresAt < now)

\* C24: a run of the sweep leaves in the store exactly the tokens whose
\* expiry is not in the past, each as it was; and no step of the server, the
\* sweep, a mint, a verification, a status check or the passing of time,
\* removes or changes a token whose expiry is not in the past, which
\* verifyAccessToken accepts.
C24_SweepRemovesExactlyExpired ==
    [][/\ ev'.op = "sweep" =>
             DOMAIN tokenStore' = {t \in DOMAIN tokenStore : Unexpired(t)}
       /\ \A t \in 1..MaxMinted :
             Unexpired(t) =>
                /\ t \in DOMAIN tokenStore'
                /\ tokenStore'[t] = tokenStore[t]
                /\ VerifyStep(t) => ev'.result = AuthInfo(t, tokenStore[t])]_vars

\* the sweep has run after the clock's jump: a token is gone and another,
\* which expires at this very instant, is still in the store
C24_Witness ==
    /\ ev.op = "sweep"
    /\ \E t \in 1..nMinted : Evicted(t)
    /\ \E t \in DOMAIN tokenStore : tokenStore[t].expiresAt = now

----------------------------------------------------------------------------
(* Properties of initiateDeviceFlow, checked under FlowSpec *)

\* a step in which initiateDeviceFlow returns, and one in which it throws
InitiateReturns == ev'.op = "initiate" /\ ev'.result.kind = "device"
InitiateThrows == ev'.op = "initiate" /\ ev'.result.kind = "throw"
\* the device codes the provider has granted so far
ProviderCodes == {ProviderDeviceCode(n) : n \in 1..nIssued}

\* C19: an initiateDeviceFlow(clientId) that returns device code d has added
\* exactly the session of d to the registry and changed no other; d was
\* never issued before and was no key of the registry; the session is
\* pending, carries the caller's client identifier, the expiry now + the
\* provider's expires_in and the provider's device code, which is not d; and
\* no device code or access token any operation returns is a device code the
\* provider granted.
C19_InitiateAddsOneFreshSession ==
    [][/\ InitiateReturns =>
             LET d == ev'.result.device_code IN
             /\ d \notin 1..nIssued
             /\ d \notin DOMAIN deviceCodes
             /\ DOMAIN deviceCodes' = DOMAIN deviceCodes \cup {d}
             /\ \A x \in DOMAIN deviceCodes : deviceCodes'[x] = deviceCodes[x]
             /\ deviceCodes'[d].sessionToken = NoToken
             /\ deviceCodes'[d].clientId = ev'.caller
             /\ deviceCodes'[d].expiresAt = now + ev'.result.expires_in
             /\ deviceCodes'[d].githubDeviceCode \in ProviderCodes' \ ProviderCodes
             /\ deviceCodes'[d].githubDeviceCode # d
             /\ tokenStore' = tokenStore
       /\ ev'.result.kind = "device" => ev'.result.device_code \notin ProviderCodes'
       /\ ev'.result.kind = "token" => ev'.result.access_token \notin ProviderCodes']_vars

\* C19 witness: a device flow was initiated while the registry held the
\* session of an earlier one, resolved and not yet delivered.
C19_Witness ==
    /\ ev.op = "initiate"
    /\ ev.result.kind = "device"
    /\ ev.result.device_code = 2
    /\ DOMAIN deviceCodes = {1, 2}
    /\ deviceCodes[1].sessionToken # NoToken
    /\ deviceCodes[2].clientId # deviceCodes[1].clientId

\* C20: an initiateDeviceFlow whose device-code request to the provider
\* fails throws: it returns no device code, and the registry, the count of
\* issued device codes and the session-token store are as they were.
C20_InitiateFailureChangesNothing ==
    [][InitiateThrows =>
          /\ deviceCodes' = deviceCodes
          /\ nIssued' = nIssued
          /\ tokenStore' = tokenStore
          /\ nMinted' = nMinted
          /\ inflight' = inflight]_vars

\* C20 witness: a device-code request failed while the registry held a
\* session and the store a token.
C20_Witness ==
    /\ ev.op = "initiate"
    /\ ev.result.kind = "throw"
    /\ deviceCodes # EmptyMap
    /\ tokenStore # EmptyMap

----------------------------------------------------------------------------
(* Properties of the authorization-code bridge and of the operations that
   are not implemented, checked under BridgeSpec *)

\* C22: every call of exchangeRefreshToken and of revokeToken, by whatever
\* client and with whatever token value or refresh token, issued by the
\* server or not, throws its "not implemented" error and leaves the
\* device-code registry, the session-token store and the temporary-code map
\* as they were.
C22_RefreshAndRevokeAlwaysFail ==
    [][ev'.op \in {"refresh", "revoke"} =>
           /\ ev'.result.kind = "throw"
           /\ ev'.result.message \in {RefreshNotImplemented, RevocationNotImplemented}
           /\ deviceCodes' = deviceCodes
           /\ tokenStore' = tokenStore
           /\ tempAuthCodes' = tempAuthCodes]_vars

\* revokeToken was called with a session token of the store while the
\* registry holds a session and the map a temporary code
C22_Witness ==
    /\ ev.op = "revoke"
    /\ ev.code \in DOMAIN tokenStore
    /\ deviceCodes # EmptyMap
    /\ tempAuthCodes # EmptyMap

ExchangeStep(code) == ev'.op = "exchange" /\ ev'.code = code
ChallengeStep(code) == ev'.op = "challenge" /\ ev'.code = code
CodeHeld(code) == code \in DOMAIN tempAuthCodes
CodeExpired(code) == CodeHeld(code) /\ tempAuthCodes[code].expires < now

\* C23: after exchangeAuthorizationCode(code), whatever it returned or threw,
\* the code is not in the temporary-code map; it returns tokens only for a
\* code that is held and not expired and that no exchange has returned
\* tokens for before; an expired code is deleted by the exchange and by
\* challengeForAuthorizationCode, which both throw; and
\* challengeForAuthorizationCode on a code that is held and not expired
\* leaves the map as it was.
C23_TemporaryCodeSingleUse ==
    [][\A code \in 0..MaxTempCodes :
          /\ ExchangeStep(code) =>
                /\ code \notin DOMAIN tempAuthCodes'
                /\ ev'.result.kind = "token" =>
                      /\ CodeHeld(code) /\ ~CodeExpired(code)
                      /\ code \notin redeemed
                /\ ev'.result.kind \in {"token", "throw"}
          /\ ((ExchangeStep(code) \/ ChallengeStep(code)) /\ CodeExpired(code)) =>
                /\ code \notin DOMAIN tempAuthCodes'
                /\ ev'.result.kind = "throw"
          /\ (ChallengeStep(code) /\ CodeHeld(code) /\ ~CodeExpired(code)) =>
                tempAuthCodes' = tempAuthCodes]_vars

\* an exchange returned tokens for the second code the legacy path made
C23_Witness ==
    /\ ev.op = "exchange"
    /\ ev.result.kind = "token"
    /\ ev.code \in redeemed
    /\ ev.code > 1

----------------------------------------------------------------------------
(* Properties of pollForAuthorization, checked under ClientSpec *)

\* a step in which the loop body handles the answer lastAns'
AnswerStep == pc = "wait" /\ pc' # "wait"
IsErrorAnswer(ans, e) == ans.type = "error" /\ ans.error = e
\* a non-success answer whose error is none of the three the loop knows
IsOtherError(ans) ==
    /\ ans.type = "error"
    /\ ans.error \notin {"authorization_pending", "slow_down", "expired_token"}

\* C5 (as claimed): pollForAuthorization called with timeout T has ended, by
\* return or throw, no later than T seconds after it was called.
C5_EndsWithinTimeout ==
    pc = "done" => stats.endTime - startTime <= maxTime - startTime

\* C6: within one call the interval never decreases, and it changes only in
\* the step that handles a slow_down answer.
C6_IntervalMonotonic ==
    [][pc # "idle" =>
          /\ interval' >= interval
          /\ interval' # interval => AnswerStep /\ IsErrorAnswer(lastAns', "slow_down")]_vars

\* C6 witness: a polling session that saw slow_down, authorization_pending
\* and other failed attempts.
C6_Witness ==
    /\ stats.slowDowns >= 1
    /\ stats.pendingAnswers >= 1
    /\ stats.onError >= 1
    /\ interval > stats.initialInterval

\* C7: every status request follows a sleep of its own, at least the current
\* interval after the call or the previous answer, and the sleep asked for
\* after k slow_down answers is the initial interval plus 5 k seconds.
C7_SleepBeforeRequest ==
    /\ pc = "fetch" =>
          /\ stats.sleeps = stats.requests + 1
          /\ now - stats.lastEventAt >= interval
          /\ stats.lastSleep = stats.initialInterval + 5 * stats.slowDowns
    /\ pc = "wait" =>
          /\ stats.sleeps = stats.requests
          /\ stats.lastSleep = stats.initialInterval + 5 * stats.slowDowns

\* C7 witness: a request about to be sent after two slow_down answers.
C7_Witness == pc = "fetch" /\ stats.slowDowns = 2 /\ stats.initialInterval > 0

\* C8: when the first n answers were authorization_pending and answer n+1 is
\* a success, the call has returned the token of answer n+1 after n calls of
\* the pending callback and n+1 requests.
C8_PendingThenSuccess ==
    \A n \in 0..stats.answers :
        (stats.answers = n + 1 /\ stats.pendingAnswers = n /\ lastAns.type = "ok") =>
            /\ pc = "done"
            /\ outcome = Returned(lastAns.token)
            /\ stats.onPending = n
            /\ stats.requests = n + 1

\* C8 witness: three pending answers, then success on the fourth request.
C8_Witness ==
    /\ stats.pendingAnswers = 3
    /\ stats.answers = 4
    /\ lastAns.type = "ok"
    /\ outcome.kind = "token"

\* C9: after an expired_token answer the call has thrown the expiry failure
\* at once: no request and no sleep after that answer, and no timeout.
C9_ExpiredTokenEnds ==
    IsErrorAnswer(lastAns, "expired_token") =>
        /\ pc = "done"
        /\ outcome = Threw(ExpiredMessage)
        /\ stats.requests = stats.answers
        /\ stats.sleeps = stats.requests
        /\ stats.endTime = stats.lastEventAt

\* C9 witness: expired_token answered after the session was pending.
C9_Witness ==
    /\ IsErrorAnswer(lastAns, "expired_token")
    /\ stats.pendingAnswers >= 1
    /\ now < maxTime

\* C10 (as claimed): an answer with any other error never ends the call: the
\* error callback is called and the loop goes on.
C10_OtherErrorContinues ==
    [][(AnswerStep /\ IsOtherError(lastAns')) =>
          /\ pc' = "loop"
          /\ stats'.onError > stats.onError]_vars

\* C10 (amended): an answer with any other error makes the loop call the error
\* callback and go on, with the interval as it was, unless its
\* error_description (its error code when it has no description) is exactly
\* 'Authorization request expired': then the call throws the expiry failure.
C10_OtherErrorContinuesUnlessSentinel ==
    [][(AnswerStep /\ IsOtherError(lastAns')) =>
          /\ stats'.onError > stats.onError
          /\ interval' = interval
          /\ IF Message(lastAns') = ExpiredMessage
             THEN pc' = "done" /\ outcome' = Threw(ExpiredMessage)
             ELSE pc' = "loop" /\ outcome' = NoOutcome]_vars

\* C10 witness: the loop went on after an invalid_grant answer.
C10_Witness ==
    /\ IsErrorAnswer(lastAns, "invalid_grant")
    /\ pc = "sleep"
    /\ stats.onError >= 1

\* C11: once a success answer was handled, the call has returned the token
\* set of that answer, tokens() yields that token set, and no device code is
\* persisted, neither in memory nor in the file; and the call returns a token
\* set in no other way.
C11_SuccessPersistsAndClears ==
    /\ lastAns.type = "ok" =>
          /\ pc = "done"
          /\ outcome = Returned(lastAns.token)
          /\ Tokens = lastAns.token
          /\ memDeviceCode = 0
          /\ fileDeviceCode = 0
          /\ GetDeviceCode = 0
    /\ outcome.kind = "token" => lastAns.type = "ok"

\* C11 witness: the call polled with a device code held in memory and in the
\* file, and returned the token set of a success answer.
C11_Witness ==
    /\ stats.storedCode = 1
    /\ clientInfo
    /\ lastAns.type = "ok"
    /\ outcome.kind = "token"
    /\ Tokens = outcome.token

\* the step in which the call ends, by return or by throw
EndStep == pc \in {"loop", "wait"} /\ pc' = "done"
ReturnsOnSuccess ==
    AnswerStep /\ lastAns'.type = "ok" /\ outcome' = Returned(lastAns'.token)
ThrowsOnExpiredToken ==
    AnswerStep /\ IsErrorAnswer(lastAns', "expired_token") /\ outcome' = Threw(ExpiredMessage)
ThrowsOnTimeout ==
    pc = "loop" /\ ~(now < maxTime) /\ outcome' = Threw(TimeoutMessage)
ThrowsOnSentinel ==
    /\ AnswerStep
    /\ IsOtherError(lastAns')
    /\ Message(lastAns') = ExpiredMessage
    /\ outcome' = Threw(ExpiredMessage)

\* C25 (as claimed): the loop ends in one of three ways only: it returns the
\* token of a success answer, it throws the expiry failure on an
\* expired_token answer, or it throws the timeout failure at a loop test at
\* or after the deadline.
C25_EndsInThreeWays ==
    [][EndStep => (ReturnsOnSuccess \/ ThrowsOnExpiredToken \/ ThrowsOnTimeout)]_vars

\* C25 (amended): the loop ends in one of four ways only: the three above,
\* and the expiry failure thrown on an answer with another error whose
\* error_description (its error code when it has no description) is exactly
\* 'Authorization request expired'.  An answer it ends on is a success, an
\* expired_token or such an error; an exception of the request ends it never.
C25_EndsInFourWays ==
    [][/\ EndStep =>
             (ReturnsOnSuccess \/ ThrowsOnExpiredToken \/ ThrowsOnTimeout \/ ThrowsOnSentinel)
       /\ (AnswerStep /\ lastAns'.type = "exception") => pc' = "loop" /\ outcome' = outcome
       /\ (AnswerStep /\ IsOtherError(lastAns') /\ Message(lastAns') # ExpiredMessage) =>
             pc' = "loop" /\ outcome' = outcome]_vars

\* C25 witness: the call threw the expiry failure on an access_denied answer
\* before its deadline.
C25_Witness ==
    /\ pc = "done"
    /\ outcome = Threw(ExpiredMessage)
    /\ IsErrorAnswer(lastAns, "access_denied")
    /\ stats.endTime < maxTime

\* every answer of the call so far was an exception of the request
OnlyExceptions == stats.answers = stats.exceptions

\* C26: as long as every attempt of a call has failed with an exception of
\* the request, the interval is the initial one, the error callback was
\* called once per attempt, no token was returned, the call has ended only
\* by the timeout failure at or after the deadline, and a loop test before
\* the deadline goes on to the next attempt, however many attempts failed.
C26_ExceptionsOnlyTimeOut ==
    [][(pc' \notin {"idle", "rejected"} /\ OnlyExceptions') =>
          /\ interval' = stats'.initialInterval
          /\ stats'.onError = stats'.answers
          /\ stats'.onPending = 0
          /\ outcome'.kind # "token"
          /\ tokenFile' = tokenFile
          /\ pc' = "done" => outcome' = Threw(TimeoutMessage) /\ ~(now' < maxTime)
          /\ (pc = "loop" /\ now < maxTime) => pc' = "sleep"]_vars

\* C26 witness: the call timed out after as many failed attempts as the
\* model allows.
C26_Witness ==
    /\ pc = "done"
    /\ OnlyExceptions
    /\ stats.exceptions = MaxPolls
    /\ outcome = Threw(TimeoutMessage)

----------------------------------------------------------------------------
(* Properties of the client's device-code storage, checked under StorageSpec *)

AuthorizeStep == stats'.authCalls = stats.authCalls + 1
\* pollForAuthorization is called without a device code
InvokeWithoutCode == Invoke(0, MaxInterval, MaxTimeout)

\* C27: an authorizeHeadless that returns has put the device code of its
\* response in memory and in the file; pollForAuthorization called without
\* a device code polls with the device code of the last authorizeHeadless
\* that returned, by the same provider instance or a new one, and with that
\* code to the end of the call; with no device code persisted it throws
\* 'No device code available'; without client information both throw
\* 'No client information available'; and these throws come with no request
\* sent and nothing stored.
C27_PollsWithPersistedDeviceCode ==
    [][/\ AuthorizeStep =>
             /\ stats'.authOutcome = "device" =>
                   /\ memDeviceCode' = stats'.lastAuthCode
                   /\ fileDeviceCode' = stats'.lastAuthCode
                   /\ stats'.lastAuthCode # 0
                   /\ stats'.authRequests = stats.authRequests + 1
             /\ ~clientInfo =>
                   /\ stats'.authOutcome = NoClientInfoMessage
                   /\ stats'.authRequests = stats.authRequests
                   /\ memDeviceCode' = memDeviceCode /\ fileDeviceCode' = fileDeviceCode
       /\ InvokeWithoutCode =>
             /\ (clientInfo /\ stats.lastAuthCode # 0) =>
                   pc' = "loop" /\ pollCode' = stats.lastAuthCode
             /\ (clientInfo /\ memDeviceCode = 0 /\ fileDeviceCode = 0) =>
                   outcome' = Threw(NoDeviceCodeMessage)
             /\ ~clientInfo => outcome' = Threw(NoClientInfoMessage)
             /\ pc' = "rejected" =>
                   /\ stats'.requests = 0
                   /\ memDeviceCode' = memDeviceCode /\ fileDeviceCode' = fileDeviceCode
       /\ pc \notin {"idle", "rejected"} => pollCode' = pollCode
       /\ (pc = "fetch" /\ pc' = "wait") => pollCode # 0]_vars

\* C27 witness: after two authorizeHeadless calls that returned different
\* device codes, a new provider instance, called without a device code, has
\* sent a status request with the later one.
C27_Witness ==
    /\ stats.authCalls = 2
    /\ stats.authOutcome = "device"
    /\ stats.lastAuthCode = 2
    /\ stats.storedCode = 2
    /\ pollCode = 2
    /\ memDeviceCode = 0
    /\ fileDeviceCode = 2
    /\ stats.requests >= 1

----------------------------------------------------------------------------
(* Properties of the registered-client store, checked under RegistrySpec *)

\* C29 (as claimed): getClient finds every client registerClient has returned
\* for, whenever the load of the persisted file completes; and when no save
\* is pending, the persisted file holds every client registered so far.
C29_RegistrationsSurviveLoadAndSaves ==
    /\ \A c \in registered : GetClient(c) = c
    /\ (registered # {} /\ pendingSaves = {}) =>
          clientsFile.exists /\ registered \subseteq clientsFile.clients

----------------------------------------------------------------------------
(* Properties of the device-flow routes, checked under RouteSpec *)

\* a step that leaves the engine's state alone and calls no provider
EngineUntouched ==
    /\ deviceCodes' = deviceCodes
    /\ tokenStore' = tokenStore
    /\ inflight' = inflight
    /\ nIssued' = nIssued
    /\ nMinted' = nMinted

\* C28: POST /device/token without client_id or without device_code and
\* POST /device/authorize without client_id answer invalid_request; with the
\* client_id of no registered client they answer invalid_client; in each
\* case the registry and the session-token store stay as they were, no call
\* awaits the provider, and no device code and no token was generated.  A
\* request reaches checkDeviceCodeStatus or initiateDeviceFlow only with the
\* client_id of a registered client (and a device code), and a route
\* rejects no other request.
C28_RoutesRejectBeforeEngine ==
    [][/\ ev'.op = "token" =>
             /\ IsError(ev'.result, IF ev'.caller = "" \/ ev'.code = 0 THEN "invalid_request"
                                    ELSE "invalid_client")
             /\ ev'.caller = "" \/ ev'.code = 0 \/ ev'.caller \notin registered
             /\ EngineUntouched
       /\ ev'.op = "authorize" =>
             /\ IsError(ev'.result, IF ev'.caller = "" THEN "invalid_request"
                                    ELSE "invalid_client")
             /\ ev'.caller = "" \/ ev'.caller \notin registered
             /\ EngineUntouched
       /\ ev'.op = "entry" => ev'.caller \in registered /\ ev'.code # 0
       /\ ev'.op = "initiate" => ev'.caller \in registered]_vars

\* C28 witness: a client that is not registered, while another is, has asked
\* for the status of a device code that has a session, and got invalid_client
C28_Witness ==
    /\ ev.op = "token"
    /\ IsError(ev.result, "invalid_client")
    /\ ev.caller \notin registered
    /\ registered # {}
    /\ ev.code \in DOMAIN deviceCodes

\* C30: the session token a status request mints carries the client_id of
\* the request the device code was issued to, whatever registered client
\* sent the status request; the route rejects no status request of a
\* registered client that names a device code, and the engine's answer to
\* it does not depend on the client; a stored token keeps its client_id,
\* and verifyAccessToken reports it.
C30_TokenBelongsToInitiatingClient ==
    [][/\ \A d \in 1..MaxCodes :
             MintStep(d) => tokenStore'[ev'.result.access_token].clientId = issuedTo[d]
       /\ \A t \in 1..MaxMinted :
             /\ (t \in DOMAIN tokenStore /\ t \in DOMAIN tokenStore') =>
                   tokenStore'[t].clientId = tokenStore[t].clientId
             /\ (VerifyStep(t) /\ ev'.result.kind = "authinfo") =>
                   ev'.result.clientId = tokenStore[t].clientId
       /\ ev'.op = "token" => ~(ev'.caller \in registered /\ ev'.code # 0)
       /\ ev'.op = "entry" =>
             /\ ev'.result = EntryResult(ev'.code)
             /\ deviceCodes' = EntryRegistry(ev'.code)]_vars

\* C30 witness: the status request of one registered client has minted the
\* token for a device code issued to another, and the token carries the
\* other's client_id
C30_Witness ==
    /\ ev.op = "answer"
    /\ ev.result.kind = "token"
    /\ ev.caller \in registered
    /\ ev.caller # issuedTo[ev.code]
    /\ tokenStore[ev.result.access_token].clientId = issuedTo[ev.code]

----------------------------------------------------------------------------
(* Properties of the client polling the server, checked under PollSpec *)

\* event e ends a call of checkDeviceCodeStatus made by the token route
EngineResult(e) == e.op \in {"entry", "answer"} /\ e.result.kind # "none"

\* the messages of the errors the model's server throws
ThrownMessages == {"fetch failed", "GitHub device code request failed"}

\* C31: every error-shaped result of checkDeviceCodeStatus is sent with a
\* non-success status, 400 for authorization_pending and 401 for any other
\* error, an exception thrown to the route is sent with 500 and an error
\* body, and every token-shaped result is sent with a success status; so
\* the token set the client has persisted is always a session token the
\* server minted, never an error object, and it is what the call returned.
C31_ClientPersistsOnlyServerTokens ==
    /\ EngineResult(ev) /\ ev.result.kind = "error" =>
          /\ TokenResponse(ev).status =
                (IF ev.result.error = "authorization_pending" THEN 400 ELSE 401)
          /\ ~ResponseOk(TokenResponse(ev).status)
          /\ AnswerClass(Received(TokenResponse(ev))) # "success"
    /\ EngineResult(ev) /\ ev.result.kind = "token" =>
          /\ ResponseOk(TokenResponse(ev).status)
          /\ TokenResponse(ev).body = ev.result
          /\ AnswerClass(Received(TokenResponse(ev))) = "success"
    /\ \A m \in ThrownMessages :
          LET resp == TokenResponse(Event("entry", 1, Thrown(m), FALSE)) IN
          /\ resp.status = 500
          /\ resp.body.kind = "error"
          /\ AnswerClass(Received(resp)) # "success"
    /\ tokenFile # NoToken => tokenFile \in 1..nMinted
    /\ pc = "done" /\ outcome.kind = "token" => outcome.token = tokenFile

\* the client got a 400 to a poll that was pending and, polling again, a
\* session token, which it has persisted
C31_Witness ==
    /\ pc = "done"
    /\ stats.pendingAnswers > 0
    /\ tokenFile \in DOMAIN tokenStore
    /\ ev.op = "answer"
    /\ ev.result.kind = "token"
    /\ ev.result.access_token = tokenFile

----------------------------------------------------------------------------
(* Properties of repeated calls of pollForAuthorization, checked under
   RetrySpec *)

\* a call of pollForAuthorization is in its loop
InCall == pc \in {"loop", "sleep", "fetch", "wait"}

\* the expiry failure and the timeout failure
FailedExit(o) == o \in {Threw(ExpiredMessage), Threw(TimeoutMessage)}

\* C32: a call of pollForAuthorization that ends in the expiry failure or in
\* the timeout failure has written nothing: none of its steps but the
\* success return changes the token file, the device code in memory or the
\* device-code file, so at such an end the stored device code is the one of
\* the call's beginning; and the next call without a device code of its own
\* polls with that stored device code, or throws when none is stored.
C32_FailedPollLeavesStorage ==
    [][/\ InCall /\ ~(pc' = "done" /\ outcome'.kind = "token") =>
             UNCHANGED <<tokenFile, memDeviceCode, fileDeviceCode>>
       /\ InCall /\ pc' = "done" /\ FailedExit(outcome') =>
             /\ tokenFile' = tokenFile
             /\ GetDeviceCode' = stats.storedCode
       /\ pc = "idle" /\ FailedExit(outcome) /\ InvokeWithoutCode =>
             IF stats.storedCode = 0
             THEN pc' = "rejected" /\ outcome' = Threw(NoDeviceCodeMessage)
             ELSE pc' = "loop" /\ pollCode' = stats.storedCode]_vars

\* a call that polled with the stored device code 2 ended in the expiry
\* failure, and a later call by a new provider instance, not given a device
\* code, is polling with 2 again
C32_Witness ==
    /\ pc = "wait"
    /\ outcome = Threw(ExpiredMessage)
    /\ lastAns.error = "expired_token"
    /\ pollCode = 2
    /\ stats.storedCode = 2
    /\ memDeviceCode = 0
    /\ fileDeviceCode = 2
    /\ tokenFile = NoToken

----------------------------------------------------------------------------
(* Properties of the tokens checkDeviceCodeStatus returns, checked under
   TokenLifeSpec *)

\* the step returns a token set from checkDeviceCodeStatus
ReturnsToken == ev'.op \in {"entry", "answer"} /\ ev'.result.kind = "token"

\* the session of d has a session token attached that the store has not
AttachedTokenGone(d) ==
    /\ Attached(d)
    /\ ~LocallyExpired(d)
    /\ deviceCodes[d].sessionToken \notin DOMAIN tokenStore

\* C33 (as claimed): every access_token checkDeviceCodeStatus returns is,
\* when it is returned, a key of the session-token store whose expiry is in
\* the future; and a call for a session whose attached token is no longer
\* in the store does not return it but goes on to the provider, the session
\* staying in the registry.
C33_ReturnedTokenIsLive ==
    [][/\ ReturnsToken =>
             /\ ev'.result.access_token \in DOMAIN tokenStore'
             /\ tokenStore'[ev'.result.access_token].expiresAt > now'
       /\ \A d \in DOMAIN deviceCodes :
             EntryStep(d) /\ AttachedTokenGone(d) =>
                /\ ev'.result = NoResult
                /\ BagSize(inflight') = BagSize(inflight) + 1
                /\ deviceCodes' = deviceCodes]_vars

====
